---- MODULE Spec2Model ----
(***************************************************************************)
(* BloodOn (src/app.py): the blood request pipeline of the Flask backend.  *)
(*                                                                         *)
(* The model follows the default deployment (USE_SQLITE = true): every     *)
(* handler opens its own sqlite3 connection; SQLite admits one writer at a *)
(* time (the write lock is taken by the first INSERT of a transaction and  *)
(* released by commit() or close()); a writer that cannot get the lock     *)
(* within busy_timeout raises OperationalError("database is locked").      *)
(* Python's sqlite3 opens a transaction implicitly before an INSERT and    *)
(* commit() does nothing when no transaction is open.                      *)
(*                                                                         *)
(* Strings are sequences of one-character strings, so that lower(),        *)
(* strip() and the substring test `in` are computed, not assumed.          *)
(***************************************************************************)
EXTENDS Integers, Sequences, FiniteSets, TLC

\* ------------------------------------------------------------------ bounds
\* Worker threads of the concurrent specification (one submission each).
MaxRuns == 2
\* Donor rows the concurrent specification registers.
MaxDonors == 2
\* Donor rows in the store of the sequential specification (SpecCap).
CapDonors == 6
\* Store faults (a failed connection, INSERT, SELECT or commit) injected in one
\* behaviour; lock timeouts are not faults and are not bounded.
MaxFaults == 1
\* Worker threads inside register_donor at once (SpecReg).
MaxRegs == 3

\* ------------------------------------------------------- program constants
\* far_donors[:5]
FAR_LIMIT == 5

Runs == 1..MaxRuns

\* the threads serving register_donor, numbered after those serving submit_request
RegThreads == (MaxRuns + 1)..(MaxRuns + MaxRegs)

Min(a, b) == IF a <= b THEN a ELSE b

\* ------------------------------------------------------------------ strings
LowerChar(c) ==
    CASE c = "M" -> "m"
      [] c = "U" -> "u"
      [] c = "C" -> "c"
      [] c = "D" -> "d"
      [] OTHER -> c

\* str.lower()
Lower(s) == [i \in 1..Len(s) |-> LowerChar(s[i])]

IsSpace(c) == c = " "

RECURSIVE LStrip(_)
LStrip(s) == IF s # <<>> /\ IsSpace(Head(s)) THEN LStrip(Tail(s)) ELSE s

RECURSIVE RStrip(_)
RStrip(s) ==
    IF s # <<>> /\ IsSpace(s[Len(s)]) THEN RStrip(SubSeq(s, 1, Len(s) - 1)) ELSE s

\* str.strip()
Strip(s) == RStrip(LStrip(s))

\* a in b (substring test); the empty string is in every string
Contains(a, b) ==
    \E i \in 0..(Len(b) - Len(a)) : SubSeq(b, i + 1, i + Len(a)) = a

\* the substring test made in one direction only
OneWayDistance(loc1, loc2) ==
    LET loc1_clean == Strip(Lower(loc1))
        loc2_clean == Strip(Lower(loc2))
    IN  IF loc1_clean = loc2_clean THEN 0
        ELSE IF Contains(loc1_clean, loc2_clean) THEN 1
        ELSE 2

\* calculate_location_distance(loc1, loc2): 0 same, 1 nearby, 2 different
calculate_location_distance(loc1, loc2) ==
    LET loc1_clean == Strip(Lower(loc1))
        loc2_clean == Strip(Lower(loc2))
    IN  IF loc1_clean = loc2_clean THEN 0
        ELSE IF Contains(loc1_clean, loc2_clean) \/ Contains(loc2_clean, loc1_clean)
             THEN 1
             ELSE 2

\* ------------------------------------------------------------ blood groups
BloodTypes == {"A+", "A-", "B+", "B-", "AB+", "AB-", "O+", "O-"}

\* the table with the Rh factor of the recipient left out
CompatibilityIgnoringRh ==
    [t \in BloodTypes |->
        CASE t \in {"A+", "A-"}   -> <<"A+", "A-", "O+", "O-">>
          [] t \in {"B+", "B-"}   -> <<"B+", "B-", "O+", "O-">>
          [] t \in {"AB+", "AB-"} -> <<"A+", "A-", "B+", "B-", "AB+", "AB-", "O+", "O-">>
          [] t \in {"O+", "O-"}   -> <<"O+", "O-">>]

\* BLOOD_COMPATIBILITY: recipient type -> donor types
BLOOD_COMPATIBILITY ==
    [t \in BloodTypes |->
        CASE t = "A+"  -> <<"A+", "A-", "O+", "O-">>
          [] t = "A-"  -> <<"A-", "O-">>
          [] t = "B+"  -> <<"B+", "B-", "O+", "O-">>
          [] t = "B-"  -> <<"B-", "O-">>
          [] t = "AB+" -> <<"A+", "A-", "B+", "B-", "AB+", "AB-", "O+", "O-">>
          [] t = "AB-" -> <<"A-", "B-", "AB-", "O-">>
          [] t = "O+"  -> <<"O+", "O-">>
          [] t = "O-"  -> <<"O-">>]

Range(s) == {s[i] : i \in 1..Len(s)}

\* BLOOD_COMPATIBILITY.get(required_blood_group, [])
compatible_groups(required_blood_group) ==
    IF required_blood_group \in DOMAIN BLOOD_COMPATIBILITY
    THEN BLOOD_COMPATIBILITY[required_blood_group]
    ELSE <<>>

\* ------------------------------------------------------------------- state
VARIABLES
    emailConfigured,  \* EMAIL_CONFIG holds both 'email' and 'password'
    donors,           \* table donors, committed rows in rowid order
    requests,         \* table blood_requests, committed rows in rowid order
    matches,          \* table matches, committed rows in rowid order
    writer,           \* the run holding SQLite's write lock, 0 when free
    faults,           \* store faults injected so far
    run,              \* per worker thread: the locals of submit_request
    reg,              \* per worker thread: the locals of register_donor
    call              \* the last application of a module-level function

vars == <<emailConfigured, donors, requests, matches, writer, faults, run, reg, call>>

\* ------------------------------------------------------- find_compatible_donors
AllDonorsUnfiltered(store, required_blood_group) == store

\* SELECT ... FROM donors WHERE blood_group IN (compatible_groups)
all_donors(store, required_blood_group) ==
    SelectSeq(store,
              LAMBDA d : d.blood_group \in Range(compatible_groups(required_blood_group)))

\* distance <= 1: nearby_donors.append(donor)
nearby_donors(store, required_blood_group, hospital_location) ==
    SelectSeq(all_donors(store, required_blood_group),
              LAMBDA d : calculate_location_distance(d.location, hospital_location) <= 1)

FarIncludesNearby(store, required_blood_group, hospital_location) ==
    all_donors(store, required_blood_group)

\* the far list cut to the first 5 inside the lookup
FarCappedInFind(store, required_blood_group, hospital_location) ==
    LET far == SelectSeq(all_donors(store, required_blood_group),
                         LAMBDA d : calculate_location_distance(d.location,
                                                                hospital_location) > 1)
    IN  SubSeq(far, 1, Min(FAR_LIMIT, Len(far)))

\* else: far_donors.append(donor)
far_donors(store, required_blood_group, hospital_location) ==
    SelectSeq(all_donors(store, required_blood_group),
              LAMBDA d : calculate_location_distance(d.location, hospital_location) > 1)

FindIgnoresFailure(store, required_blood_group, hospital_location, available) ==
    IF compatible_groups(required_blood_group) = <<>>
    THEN <<<<>>, <<>>>>
    ELSE <<nearby_donors(store, required_blood_group, hospital_location),
           far_donors(store, required_blood_group, hospital_location)>>

\* find_compatible_donors: <<nearby, far>>; ([], []) when the connection or the
\* query fails (available = FALSE) or the blood group has no table entry
find_compatible_donors(store, required_blood_group, hospital_location, available) ==
    IF ~available \/ compatible_groups(required_blood_group) = <<>>
    THEN <<<<>>, <<>>>>
    ELSE <<nearby_donors(store, required_blood_group, hospital_location),
           far_donors(store, required_blood_group, hospital_location)>>

\* ------------------------------------------------------ send_email_notification
Transports == {"sent", "timeout", "smtp_error"}

\* False when unconfigured, on socket.timeout and on any other exception
send_email_notification(configured, transport) ==
    configured /\ transport = "sent"

\* send_whatsapp_notification returns True on every path
send_whatsapp_notification == TRUE

\* --------------------------------------------------------------- submit_request
FarUncapped(far) == far

\* far_donors[:5]
FarBatch(far) == SubSeq(far, 1, Min(FAR_LIMIT, Len(far)))

NearRecordsAlways(email_sent) == TRUE

\* `if email_sent:` guards the near-tier match insert
NearRecords(email_sent) == email_sent

\* the far-tier match insert is unconditional
FarRecords(email_sent) == TRUE

\* a match insert that raises leaves the run hanging, without a response
HangOnFailure(phase, pos, near, far, failed) ==
    IF failed
    THEN [pc |-> "hung", pos |-> pos]
    ELSE IF phase \in {"find", "near"} /\ pos < Len(near)
    THEN [pc |-> "near", pos |-> pos + 1]
    ELSE IF phase \in {"find", "near"} /\ far # <<>>
    THEN [pc |-> "far", pos |-> 1]
    ELSE IF phase = "far" /\ pos < Min(FAR_LIMIT, Len(far))
    THEN [pc |-> "far", pos |-> pos + 1]
    ELSE [pc |-> "commit", pos |-> 0]

AbortLoopOnFailure(phase, pos, near, far, failed) ==
    IF phase = "find" /\ near # <<>>
    THEN [pc |-> "near", pos |-> 1]
    ELSE IF phase = "near" /\ pos < Len(near) /\ ~failed
    THEN [pc |-> "near", pos |-> pos + 1]
    ELSE IF phase \in {"find", "near"} /\ FarBatch(far) # <<>>
    THEN [pc |-> "far", pos |-> 1]
    ELSE IF phase = "far" /\ pos < Len(FarBatch(far)) /\ ~failed
    THEN [pc |-> "far", pos |-> pos + 1]
    ELSE [pc |-> "commit", pos |-> 0]

\* where control goes after iteration `pos` of loop `phase` ("find": before the
\* loops); `except ...: continue` makes a failed iteration go on like any other
AfterDonor(phase, pos, near, far, failed) ==
    IF phase = "find" /\ near # <<>>
    THEN [pc |-> "near", pos |-> 1]
    ELSE IF phase = "near" /\ pos < Len(near)
    THEN [pc |-> "near", pos |-> pos + 1]
    ELSE IF phase \in {"find", "near"} /\ FarBatch(far) # <<>>
    THEN [pc |-> "far", pos |-> 1]
    ELSE IF phase = "far" /\ pos < Len(FarBatch(far))
    THEN [pc |-> "far", pos |-> pos + 1]
    ELSE [pc |-> "commit", pos |-> 0]

NoResp ==
    [success |-> FALSE, status |-> 0, request_id |-> 0,
     nearby_count |-> 0, far_count |-> 0, notified_count |-> 0]

\* jsonify({'success': False, 'message': ...}), status
Failure(status) == [NoResp EXCEPT !.status = status]

\* jsonify({'success': True, ..., 'request_id', 'nearby_count', 'far_count'}), 201
Success(l) ==
    [success |-> TRUE, status |-> 201, request_id |-> l.request_id,
     nearby_count |-> Len(l.nearby_donors), far_count |-> Len(l.far_donors),
     notified_count |-> l.notified_count]

NoData == [complete |-> FALSE, required_blood_group |-> "", hospital_location |-> <<>>]

IdleRun ==
    [pc |-> "idle", data |-> NoData, request_id |-> 0,
     nearby_donors |-> <<>>, far_donors |-> <<>>, pos |-> 0,
     txn |-> <<>>, notified_count |-> 0, resp |-> NoResp,
     \* history of the run, read by the properties only
     persisted |-> FALSE, findFailed |-> FALSE, storeAtFind |-> 0,
     attempted |-> <<>>, sent |-> {}, insertCalls |-> <<>>,
     insertBusy |-> {}, insertFault |-> {}]

\* ------------------------------------------------------------------ inputs
Mumbai == <<"M", "u">>
MumbaiPadded == <<" ", "m", "U", " ">>
MumbaiCentral == <<"M", "u", " ", "C">>
Delhi == <<"D">>

\* what the concurrent specification registers and requests
DonorGroups == {"O-", "B+"}
DonorLocations == {MumbaiCentral, Delhi}
RequestGroups == {"O-", "ZZ"}
HospitalLocations == {Mumbai}

\* what the sequential specification stores and requests
CapDonorGroups == {"O-"}
CapDonorLocations == {MumbaiPadded, Delhi}
CapRequestGroups == {"A+"}

Donor(id, blood_group, location) ==
    [id |-> id, blood_group |-> blood_group, email |-> id, phone |-> id,
     location |-> location]

\* ------------------------------------------------------------------ actions
Set(r, l) == run' = [run EXCEPT ![r] = l]

\* whether the store may fail now, and the count after it did or did not
Faulty == IF faults < MaxFaults THEN BOOLEAN ELSE {FALSE}
Injected(fault) == faults' = IF fault THEN faults + 1 ELSE faults

\* A writer waits up to busy_timeout (20 s) for the write lock. The wait runs out
\* ("database is locked") only while the holder keeps its transaction open across
\* email sends (10 s timeouts each), that is inside its notification loops with
\* email configured (an unconfigured send returns at once); a holder about to
\* commit releases the lock in time and the writer goes on then.
LockTimesOut(r) ==
    /\ writer \notin {0, r}
    /\ writer \in Runs
    /\ emailConfigured
    /\ run[writer].pc \in {"near", "far"}

\* the write lock after run r closed its connection (finally: connection.close())
Released(r) == IF writer = r THEN 0 ELSE writer

\* submit_request, lines 645-650: a required field is missing
RejectMissingFields(r) ==
    /\ run[r].pc = "idle"
    /\ Set(r, [run[r] EXCEPT !.pc = "done", !.resp = Failure(400)])
    /\ UNCHANGED <<emailConfigured, donors, requests, matches, writer, faults, reg, call>>

\* submit_request, lines 652-654: get_db_connection() returned None
ConnectFails(r) ==
    /\ run[r].pc = "idle"
    /\ TRUE \in Faulty
    /\ Injected(TRUE)
    /\ Set(r, [run[r] EXCEPT !.pc = "done", !.resp = Failure(500)])
    /\ UNCHANGED <<emailConfigured, donors, requests, matches, writer, reg, call>>

\* submit_request, lines 659-685: INSERT INTO blood_requests; request_id = lastrowid.
\* The INSERT takes the write lock; it raises when the lock stays taken ("database
\* is locked", 503) or the store fails (500).
InsertRequest(r, groups, locs) ==
    /\ run[r].pc = "idle"
    /\ \E g \in groups, h \in locs, fault \in (IF writer = 0 THEN Faulty ELSE {FALSE}) :
         LET data == [complete |-> TRUE, required_blood_group |-> g,
                      hospital_location |-> h]
         IN  IF writer # 0
             THEN /\ LockTimesOut(r)
                  /\ Set(r, [run[r] EXCEPT !.pc = "done", !.resp = Failure(503)])
                  /\ UNCHANGED <<writer, faults>>
             ELSE IF fault
             THEN /\ Set(r, [run[r] EXCEPT !.pc = "done", !.resp = Failure(500)])
                  /\ Injected(TRUE)
                  /\ UNCHANGED writer
             ELSE /\ Set(r, [run[r] EXCEPT !.pc = "inserted", !.data = data,
                                           !.request_id = Len(requests) + 1])
                  /\ writer' = r
                  /\ UNCHANGED faults
    /\ UNCHANGED <<emailConfigured, donors, requests, matches, reg, call>>

\* submit_request, line 686: connection.commit() of the request row
CommitRequest(r) ==
    /\ run[r].pc = "inserted"
    /\ \E fault \in Faulty :
         /\ Injected(fault)
         /\ IF fault
            THEN /\ Set(r, [run[r] EXCEPT !.pc = "done", !.resp = Failure(500)])
                 /\ UNCHANGED requests
            ELSE /\ Set(r, [run[r] EXCEPT !.pc = "persisted", !.persisted = TRUE])
                 /\ requests' = Append(requests,
                                       [id |-> run[r].request_id,
                                        required_blood_group |-> run[r].data.required_blood_group,
                                        hospital_location |-> run[r].data.hospital_location])
    /\ writer' = Released(r)
    /\ UNCHANGED <<emailConfigured, donors, matches, reg, call>>

\* submit_request, lines 688-692: find_compatible_donors on a connection of its own
FindDonors(r) ==
    /\ run[r].pc = "persisted"
    /\ \E fault \in Faulty :
         LET available == ~fault
             found == find_compatible_donors(donors, run[r].data.required_blood_group,
                                             run[r].data.hospital_location, available)
             next == AfterDonor("find", 0, found[1], found[2], FALSE)
         IN  /\ Injected(fault)
             /\ Set(r, [run[r] EXCEPT
                          !.pc = next.pc, !.pos = next.pos,
                          !.nearby_donors = found[1], !.far_donors = found[2],
                          !.findFailed = ~available, !.storeAtFind = Len(donors)])
    /\ UNCHANGED <<emailConfigured, donors, requests, matches, writer, reg, call>>

\* what an INSERT INTO matches by run r can do: succeed or fail while the write lock
\* is free or its own, time out while another run keeps it (else it waits)
InsertOutcomes(r) ==
    IF LockTimesOut(r) THEN {"busy"}
    ELSE IF writer \notin {0, r} THEN {}
    ELSE IF faults < MaxFaults THEN {"ok", "fault"}
    ELSE {"ok"}

\* one iteration of either loop: notify `donor`, insert the match when `records`
NotifyDonor(r, phase, donor, records) ==
    \E transport \in (IF emailConfigured THEN Transports ELSE {"none"}) :
    \E ins \in (IF records[send_email_notification(emailConfigured, transport)]
                THEN InsertOutcomes(r) ELSE {"none"}) :
      LET email_sent == send_email_notification(emailConfigured, transport)
          insert == records[email_sent]
          ok == insert /\ ins = "ok"
          failed == insert /\ ins # "ok"
          next == AfterDonor(phase, run[r].pos, run[r].nearby_donors,
                             run[r].far_donors, failed)
      IN  /\ Set(r, [run[r] EXCEPT
                       !.pc = next.pc, !.pos = next.pos,
                       !.txn = IF ok
                               THEN Append(@, [request_id |-> run[r].request_id,
                                               donor_id |-> donor.id])
                               ELSE @,
                       !.notified_count = IF ok /\ phase = "near" THEN @ + 1 ELSE @,
                       !.attempted = Append(@, donor.id),
                       !.sent = IF email_sent THEN @ \cup {donor.id} ELSE @,
                       !.insertCalls = IF insert THEN Append(@, donor.id) ELSE @,
                       !.insertBusy = IF insert /\ ins = "busy"
                                      THEN @ \cup {donor.id} ELSE @,
                       !.insertFault = IF insert /\ ins = "fault"
                                       THEN @ \cup {donor.id} ELSE @])
          /\ writer' = IF ok THEN r ELSE writer
          /\ Injected(insert /\ ins = "fault")

\* submit_request, lines 706-732: the loop over nearby_donors
NotifyNearby(r) ==
    /\ run[r].pc = "near"
    /\ NotifyDonor(r, "near", run[r].nearby_donors[run[r].pos],
                   [e \in BOOLEAN |-> NearRecords(e)])
    /\ UNCHANGED <<emailConfigured, donors, requests, matches, reg, call>>

\* submit_request, lines 735-756: the loop over far_donors[:5]
NotifyFar(r) ==
    /\ run[r].pc = "far"
    /\ NotifyDonor(r, "far", FarBatch(run[r].far_donors)[run[r].pos],
                   [e \in BOOLEAN |-> FarRecords(e)])
    /\ UNCHANGED <<emailConfigured, donors, requests, matches, reg, call>>

\* submit_request, lines 758-780: the final connection.commit(), the response, and
\* close(). commit() writes only when a transaction holds rows; a failed commit
\* leaves through the outer except and close() rolls the rows back.
FinalCommit(r) ==
    /\ run[r].pc = "commit"
    /\ \E fault \in (IF run[r].txn # <<>> THEN Faulty ELSE {FALSE}) :
         /\ Injected(fault)
         /\ IF fault
            THEN /\ Set(r, [run[r] EXCEPT !.pc = "done", !.txn = <<>>,
                                          !.resp = Failure(500)])
                 /\ UNCHANGED matches
            ELSE /\ Set(r, [run[r] EXCEPT !.pc = "done", !.txn = <<>>,
                                          !.resp = Success(run[r])])
                 /\ matches' = matches \o run[r].txn
    /\ writer' = Released(r)
    /\ UNCHANGED <<emailConfigured, donors, requests, reg, call>>

\* donors.email UNIQUE, donors.phone UNIQUE with the phone column left out
DuplicateEmailOnly(store, row) ==
    \E i \in 1..Len(store) : store[i].email = row.email

\* init_database, lines 143-153: email ... UNIQUE, phone ... UNIQUE. The INSERT of
\* `row` raises IntegrityError when a stored row has its email or has its phone.
duplicate_contact(store, row) ==
    \E i \in 1..Len(store) : store[i].email = row.email \/ store[i].phone = row.phone

\* register_donor, lines 594-639: INSERT INTO donors and commit on a connection of
\* its own; the row is refused when its email or phone is stored already (UNIQUE)
\* or the write lock stays taken (then it waits or times out: no row either way)
RegisterDonor(max, groups, locs) ==
    /\ Len(donors) < max
    /\ \E g \in groups, l \in locs, contact \in 1..(Len(donors) + 1) :
         LET row == [Donor(Len(donors) + 1, g, l) EXCEPT !.email = contact,
                                                         !.phone = contact]
             duplicate == duplicate_contact(donors, row)
         IN  donors' = IF writer = 0 /\ ~duplicate THEN Append(donors, row) ELSE donors
    /\ UNCHANGED <<emailConfigured, requests, matches, writer, faults, run, reg, call>>

\* ---------------------------------------------- register_donor, step by step
NoRegResp == [success |-> FALSE, status |-> 0, message |-> "", donor_id |-> 0]

\* jsonify({'success': False, 'message': message}), status
RegFailure(status, message) ==
    [NoRegResp EXCEPT !.status = status, !.message = message]

\* jsonify({'success': True, 'message': ..., 'donor_id': donor_id}), 201
RegSuccess(donor_id) ==
    [success |-> TRUE, status |-> 201, message |-> "Donor registered successfully",
     donor_id |-> donor_id]

IdleReg ==
    [pc |-> "idle", row |-> Donor(0, "", <<>>), resp |-> NoRegResp,
     \* history of the call, read by the properties only
     executed |-> FALSE, storeAtInsert |-> 0]

SetReg(t, l) == reg' = [reg EXCEPT ![t] = l]

\* register_donor, lines 597-599: a required field is missing
RegisterMissingFields(t) ==
    /\ reg[t].pc = "idle"
    /\ SetReg(t, [reg[t] EXCEPT !.pc = "done",
                                !.resp = RegFailure(400, "Missing required fields")])
    /\ UNCHANGED <<emailConfigured, donors, requests, matches, writer, faults, run, call>>

\* register_donor, lines 601-603: get_db_connection() returned None
RegisterConnectFails(t) ==
    /\ reg[t].pc = "idle"
    /\ TRUE \in Faulty
    /\ Injected(TRUE)
    /\ SetReg(t, [reg[t] EXCEPT !.pc = "done",
                                !.resp = RegFailure(500, "Database connection failed")])
    /\ UNCHANGED <<emailConfigured, donors, requests, matches, writer, run, call>>

\* register_donor, lines 607-620 and 634-639: INSERT INTO donors. The INSERT waits
\* for the write lock, so it sees every committed row and no pending one; the
\* UNIQUE columns are checked then. An IntegrityError ("UNIQUE constraint failed")
\* answers 400, any other exception 500; leaving the function drops the connection
\* and with it the open transaction.
RegisterInsert(t, groups, locs, emails, phones) ==
    /\ reg[t].pc = "idle"
    /\ \E g \in groups, l \in locs, e \in emails, p \in phones :
       \E fault \in (IF writer = 0 THEN Faulty ELSE {FALSE}) :
         LET row == [Donor(Len(donors) + 1, g, l) EXCEPT !.email = e, !.phone = p]
             seen == [reg[t] EXCEPT !.row = row, !.executed = TRUE,
                                    !.storeAtInsert = Len(donors)]
         IN  IF writer # 0
             THEN /\ LockTimesOut(t)
                  /\ SetReg(t, [reg[t] EXCEPT !.pc = "done", !.row = row,
                                              !.resp = RegFailure(500, "database is locked")])
                  /\ UNCHANGED <<writer, faults>>
             ELSE IF duplicate_contact(donors, row)
             THEN /\ SetReg(t, [seen EXCEPT
                                  !.pc = "done",
                                  !.resp = RegFailure(400, "Email or phone already registered")])
                  /\ UNCHANGED <<writer, faults>>
             ELSE IF fault
             THEN /\ SetReg(t, [seen EXCEPT !.pc = "done",
                                            !.resp = RegFailure(500, "error")])
                  /\ Injected(TRUE)
                  /\ UNCHANGED writer
             ELSE /\ SetReg(t, [seen EXCEPT !.pc = "inserted"])
                  /\ writer' = t
                  /\ UNCHANGED faults
    /\ UNCHANGED <<emailConfigured, donors, requests, matches, run, call>>

\* register_donor, lines 622-632: connection.commit(), donor_id = cursor.lastrowid,
\* close(), the 201 response; a failed commit leaves through the except (500)
RegisterCommit(t) ==
    /\ reg[t].pc = "inserted"
    /\ \E fault \in Faulty :
         /\ Injected(fault)
         /\ IF fault
            THEN /\ SetReg(t, [reg[t] EXCEPT !.pc = "done",
                                             !.resp = RegFailure(500, "error")])
                 /\ UNCHANGED donors
            ELSE /\ SetReg(t, [reg[t] EXCEPT !.pc = "done",
                                             !.resp = RegSuccess(reg[t].row.id)])
                 /\ donors' = Append(donors, reg[t].row)
    /\ writer' = Released(t)
    /\ UNCHANGED <<emailConfigured, requests, matches, run, call>>

\* no module-level function applied yet
NoCall == [fn |-> "none", args |-> <<>>, result |-> <<>>]

\* ----------------------------------------------------------- specifications
\* the state after init_database(): empty tables, no request running
Init ==
    /\ emailConfigured \in BOOLEAN
    /\ donors = <<>>
    /\ requests = <<>>
    /\ matches = <<>>
    /\ writer = 0
    /\ faults = 0
    /\ run = [r \in Runs |-> IdleRun]
    /\ reg = [t \in RegThreads |-> IdleReg]
    /\ call = NoCall

Next ==
    \/ RegisterDonor(MaxDonors, DonorGroups, DonorLocations)
    \/ \E r \in Runs :
         \/ RejectMissingFields(r)
         \/ ConnectFails(r)
         \/ InsertRequest(r, RequestGroups, HospitalLocations)
         \/ CommitRequest(r)
         \/ FindDonors(r)
         \/ NotifyNearby(r)
         \/ NotifyFar(r)
         \/ FinalCommit(r)

Spec == Init /\ [][Next]_vars

\* what the thread of run r does once submit_request has started on its request
Step(r) ==
    \/ CommitRequest(r)
    \/ FindDonors(r)
    \/ NotifyNearby(r)
    \/ NotifyFar(r)
    \/ FinalCommit(r)

\* The concurrent specification with scheduling: app.run serves each request on a
\* thread of its own, and the operating system lets every thread that can take
\* a step take one eventually. A thread waiting for the write lock cannot take
\* a step until the lock is released or busy_timeout runs out.
SpecFair == Spec /\ \A r \in Runs : WF_vars(Step(r))

\* The sequential specification: one submission against a store that already
\* holds CapDonors donors registered in any order of locations (enough far donors
\* for far_donors[:5] to cut the list, enough near donors to outnumber that cap).
CapStores ==
    {[i \in 1..CapDonors |-> Donor(i, g[i], l[i])] :
        g \in [1..CapDonors -> CapDonorGroups], l \in [1..CapDonors -> CapDonorLocations]}

InitCap ==
    /\ emailConfigured \in BOOLEAN
    /\ donors \in CapStores
    /\ requests = <<>>
    /\ matches = <<>>
    /\ writer = 0
    /\ faults = 0
    /\ run = [r \in Runs |-> IdleRun]
    /\ reg = [t \in RegThreads |-> IdleReg]
    /\ call = NoCall

NextCap ==
    \E r \in {1} :
       \/ RejectMissingFields(r)
       \/ ConnectFails(r)
       \/ InsertRequest(r, CapRequestGroups, HospitalLocations)
       \/ CommitRequest(r)
       \/ FindDonors(r)
       \/ NotifyNearby(r)
       \/ NotifyFar(r)
       \/ FinalCommit(r)

SpecCap == InitCap /\ [][NextCap]_vars

\* ------------------------------------------- the module-level functions alone
\* The functions keep no state between calls, so a behaviour applies one of them
\* once, to arguments of its choice.
Applied(fn, args, result) == call' = [fn |-> fn, args |-> args, result |-> result]

\* BLOOD_COMPATIBILITY.get(blood_type, []) for a blood type
ApplyCompatibility(types) ==
    /\ call = NoCall
    /\ \E t \in types : Applied("compatible_groups", <<t>>, compatible_groups(t))
    /\ UNCHANGED <<emailConfigured, donors, requests, matches, writer, faults, run, reg>>

\* calculate_location_distance(a, b) for two location strings
ApplyDistance(locations) ==
    /\ call = NoCall
    /\ \E a \in locations, b \in locations :
         Applied("calculate_location_distance", <<a, b>>,
                 calculate_location_distance(a, b))
    /\ UNCHANGED <<emailConfigured, donors, requests, matches, writer, faults, run, reg>>

\* find_compatible_donors(required_blood_group, hospital_location) on a store
ApplyFind(stores, groups, locs) ==
    /\ call = NoCall
    /\ \E store \in stores, g \in groups, h \in locs, available \in BOOLEAN :
         Applied("find_compatible_donors", <<store, g, h, available>>,
                 find_compatible_donors(store, g, h, available))
    /\ UNCHANGED <<emailConfigured, donors, requests, matches, writer, faults, run, reg>>

\* the longest location string applied, and the location strings up to it
MaxLocLen == 3
LocChars == {"M", "m", "u", " "}
LocationStrings == UNION {[1..n -> LocChars] : n \in 0..MaxLocLen}

\* the largest store drawn freely, and the stores the lookup is applied to: every
\* store up to that size, and the stores of CapDonors donors
MaxStore == 3
FindGroups == {"O-", "AB+"}
FindLocations == {Mumbai, MumbaiPadded, MumbaiCentral, Delhi}
FindRequestGroups == {"A+", "O-", "ZZ"}
FindHospitals == {Mumbai, Delhi}
FindStores ==
    CapStores \cup
    UNION {{[i \in 1..n |-> Donor(i, g[i], l[i])] :
               g \in [1..n -> FindGroups], l \in [1..n -> FindLocations]} :
           n \in 0..MaxStore}

NextFn ==
    \/ ApplyCompatibility(BloodTypes \cup {"ZZ"})
    \/ ApplyDistance(LocationStrings)
    \/ ApplyFind(FindStores, FindRequestGroups, FindHospitals)

\* the three functions read neither the email configuration nor the tables
InitFn == Init /\ ~emailConfigured

SpecFn == InitFn /\ [][NextFn]_vars

\* The registration specification: MaxRegs concurrent register_donor calls whose
\* emails and phones are drawn independently, so that a call can repeat one
\* contact of a stored donor and not the other.
RegEmails == 1..3
RegPhones == 1..2

NextReg ==
    \E t \in RegThreads :
       \/ RegisterMissingFields(t)
       \/ RegisterConnectFails(t)
       \/ RegisterInsert(t, CapDonorGroups, {Delhi}, RegEmails, RegPhones)
       \/ RegisterCommit(t)

SpecReg == Init /\ [][NextReg]_vars

\* ------------------------------------------------------------- properties
Ids(seq) == [i \in 1..Len(seq) |-> seq[i].id]

DonorIds(rows) == [i \in 1..Len(rows) |-> rows[i].donor_id]

\* the committed Match rows of request rid, in rowid order
RowsOf(rid) == SelectSeq(matches, LAMBDA m : m.request_id = rid)

NoDup(seq) == \A i, j \in 1..Len(seq) : i # j => seq[i] # seq[j]

IsPrefix(a, b) == Len(a) <= Len(b) /\ a = SubSeq(b, 1, Len(a))

Returned(r) == run[r].pc = "done"

Completed(r) == Returned(r) /\ run[r].resp.success

\* the donors a run has to attempt: the near list, then the first 5 of the far list
Order(r) ==
    Ids(run[r].nearby_donors)
        \o Ids(SubSeq(run[r].far_donors, 1, Min(FAR_LIMIT, Len(run[r].far_donors))))

\* C1: when submit_request completes (returns success) and no match insert raised,
\* the Match rows of the request are exactly one per near-tier donor whose email
\* send returned success, followed by one per donor among the first min(5, |far|)
\* far-tier donors whatever their email outcome; nobody else has a row.
C1_MatchRowsExact ==
    \A r \in Runs :
        Completed(r) /\ run[r].insertBusy = {} /\ run[r].insertFault = {}
        => DonorIds(RowsOf(run[r].request_id))
             = SelectSeq(Ids(run[r].nearby_donors), LAMBDA d : d \in run[r].sent)
                 \o Ids(SubSeq(run[r].far_donors, 1,
                               Min(FAR_LIMIT, Len(run[r].far_donors))))

\* C1 witness: a completed run without insert errors in which a far-tier email
\* failed inside the first five, a sixth far donor exists and five rows were written
C1_Witness ==
    \E r \in Runs :
        /\ Completed(r) /\ run[r].insertBusy = {} /\ run[r].insertFault = {}
        /\ Len(run[r].far_donors) > FAR_LIMIT
        /\ \E i \in 1..FAR_LIMIT : run[r].far_donors[i].id \notin run[r].sent
        /\ Len(RowsOf(run[r].request_id)) = FAR_LIMIT

\* C2: the donors attempted so far are always a prefix of (near list in fetch order,
\* then the first 5 of the far list in fetch order), and among the Match rows of a
\* request, pending or committed, no far-tier row precedes a near-tier row.
C2_NearBeforeFar ==
    \A r \in Runs :
        LET nearIds == Range(Ids(run[r].nearby_donors))
            farIds == Range(Ids(run[r].far_donors))
            rows == IF run[r].persisted
                    THEN RowsOf(run[r].request_id) \o run[r].txn
                    ELSE run[r].txn
        IN  /\ IsPrefix(run[r].attempted, Order(r))
            /\ \A i, j \in 1..Len(rows) :
                   i < j => ~(rows[i].donor_id \in farIds /\ rows[j].donor_id \in nearIds)

\* C2 witness: the store lists a far donor before a near donor, five far donors
\* exist, and the committed rows are the near row followed by the five far rows
C2_Witness ==
    \E r \in Runs :
        /\ Completed(r)
        /\ Len(run[r].far_donors) = FAR_LIMIT
        /\ run[r].nearby_donors # <<>>
        /\ run[r].far_donors[1].id < run[r].nearby_donors[1].id
        /\ Len(RowsOf(run[r].request_id)) = FAR_LIMIT + 1
        /\ RowsOf(run[r].request_id)[1].donor_id = run[r].nearby_donors[1].id

\* C3: a run that persisted its request and got its candidate lists has, when it
\* reaches the final commit or returns, attempted every near-tier donor and every
\* one of the first 5 far-tier donors, whatever failed on the way.
C3_FailureDoesNotAbort ==
    \A r \in Runs :
        run[r].persisted /\ run[r].pc \in {"commit", "done"}
        => /\ Len(run[r].attempted) = Len(Order(r))
           /\ Range(run[r].attempted) = Range(Order(r))

\* C3 witness: the first near-tier email failed, a match insert raised for a donor
\* that is not the last one, and all donors were attempted
C3_Witness ==
    \E r \in Runs :
        /\ Returned(r) /\ run[r].persisted
        /\ Len(run[r].nearby_donors) >= 2
        /\ run[r].nearby_donors[1].id \notin run[r].sent
        /\ run[r].nearby_donors[2].id \in run[r].insertFault
        /\ Len(run[r].far_donors) >= 2
        /\ Len(run[r].attempted) = Len(run[r].nearby_donors) + Len(run[r].far_donors)

\* C4 (as claimed): a run that persisted its request row returns the success
\* response; a failure response is returned only when the row was not persisted.
C4_PersistedMeansSuccess ==
    \A r \in Runs : Returned(r) /\ run[r].persisted => run[r].resp.success

\* what find_compatible_donors returns for run r on the store it read, undisturbed
AloneLists(r) ==
    LET store == SubSeq(donors, 1, run[r].storeAtFind)
        d == run[r].data
    IN  <<SelectSeq(store, LAMBDA x :
              /\ x.blood_group \in Range(compatible_groups(d.required_blood_group))
              /\ calculate_location_distance(x.location, d.hospital_location) <= 1),
          SelectSeq(store, LAMBDA x :
              /\ x.blood_group \in Range(compatible_groups(d.required_blood_group))
              /\ calculate_location_distance(x.location, d.hospital_location) > 1)>>

\* C5 (as claimed, for behaviours without any injected store fault): two runs that
\* both persisted their request and returned have different request_ids, the rows
\* of each request_id come from the inserts of the run that owns it, and each
\* successful response carries the counts the run would report alone: the sizes of
\* the two lists and, as notified_count, the near-tier donors whose email succeeded.
C5_ConcurrentRunsIndependent ==
    \A r1, r2 \in Runs :
        (/\ r1 # r2 /\ faults = 0
         /\ Returned(r1) /\ run[r1].persisted
         /\ Returned(r2) /\ run[r2].persisted)
        => /\ run[r1].request_id # run[r2].request_id
           /\ Range(DonorIds(RowsOf(run[r1].request_id))) \subseteq Range(run[r1].insertCalls)
           /\ run[r1].resp.success
              => /\ run[r1].resp.request_id = run[r1].request_id
                 /\ run[r1].resp.nearby_count = Len(AloneLists(r1)[1])
                 /\ run[r1].resp.far_count = Len(AloneLists(r1)[2])
                 /\ run[r1].resp.notified_count
                      = Cardinality({i \in 1..Len(AloneLists(r1)[1]) :
                                        AloneLists(r1)[1][i].id \in run[r1].sent})

\* C5, the part that holds: distinct request_ids and own rows only
C5_DistinctRequestIds ==
    \A r1, r2 \in Runs :
        (r1 # r2 /\ run[r1].persisted /\ run[r2].persisted)
        => /\ run[r1].request_id # run[r2].request_id
           /\ Range(DonorIds(RowsOf(run[r1].request_id))) \subseteq Range(run[r1].insertCalls)

\* C6 (as claimed): once submit_request has returned, every donor whose email send
\* returned success while the request was processed has exactly one Match row
\* (request_id, donor_id), also when an insert or the final commit failed.
C6_OneRowPerNotifiedDonor ==
    \A r \in Runs :
        Returned(r) /\ run[r].persisted
        => \A d \in run[r].sent :
               Cardinality({i \in 1..Len(matches) :
                               matches[i] = [request_id |-> run[r].request_id,
                                             donor_id |-> d]}) = 1

\* C6, the part that holds: committed Match rows are never removed or modified
C6_AppendOnly == [][IsPrefix(matches, matches')]_vars

\* C7: per request, no donor is attempted twice, no donor appears twice in the
\* candidate lists (near and far together), the match insert is called at most once
\* per donor, and no two Match rows, committed or pending, share (request_id, donor_id).
C7_AtMostOncePerDonor ==
    /\ \A r \in Runs :
          /\ NoDup(run[r].attempted)
          /\ NoDup(run[r].insertCalls)
          /\ NoDup(Ids(run[r].nearby_donors) \o Ids(run[r].far_donors))
          /\ NoDup(matches \o run[r].txn)
    /\ \A r1, r2 \in Runs :
          r1 # r2 => Range(run[r1].txn) \cap Range(run[r2].txn) = {}

\* C7 witness: two submissions returned success and the same donor has one row in each
C7_Witness ==
    \E r1, r2 \in Runs :
        /\ r1 # r2 /\ Completed(r1) /\ Completed(r2)
        /\ \E d \in Range(Ids(donors)) :
              /\ [request_id |-> run[r1].request_id, donor_id |-> d] \in Range(matches)
              /\ [request_id |-> run[r2].request_id, donor_id |-> d] \in Range(matches)
        /\ \E r \in Runs : Len(run[r].attempted) >= 2

\* C8: every Match row, committed or pending, refers to a persisted request and to a
\* stored donor whose blood group is in BLOOD_COMPATIBILITY of the request's group.
C8_MatchRefersToCompatibleDonor ==
    \A m \in Range(matches) \cup UNION {Range(run[r].txn) : r \in Runs} :
        \E q \in Range(requests) :
            /\ q.id = m.request_id
            /\ q.required_blood_group \in BloodTypes
            /\ \E d \in Range(donors) :
                  /\ d.id = m.donor_id
                  /\ d.blood_group \in Range(BLOOD_COMPATIBILITY[q.required_blood_group])

\* C8 witness: a committed row exists while the store also holds a donor whose blood
\* group is not compatible with that request
C8_Witness ==
    \E m \in Range(matches) :
        \E q \in Range(requests), d \in Range(donors) :
            /\ q.id = m.request_id
            /\ d.id # m.donor_id
            /\ d.id <= Len(donors)
            /\ d.blood_group \notin Range(compatible_groups(q.required_blood_group))

\* C9: a run that persisted its request and whose donor lookup failed, or found no
\* stored donor of a compatible group, has empty lists, attempts nobody, creates no
\* Match row and returns success with the request_id of its persisted row and
\* nearby_count = far_count = notified_count = 0.
C9_NoCandidatesStillSucceeds ==
    \A r \in Runs :
        (/\ Returned(r) /\ run[r].persisted
         /\ \/ run[r].findFailed
            \/ \A i \in 1..run[r].storeAtFind :
                  donors[i].blood_group
                     \notin Range(compatible_groups(run[r].data.required_blood_group)))
        => /\ run[r].nearby_donors = <<>> /\ run[r].far_donors = <<>>
           /\ run[r].attempted = <<>>
           /\ RowsOf(run[r].request_id) = <<>>
           /\ run[r].resp = [success |-> TRUE, status |-> 201,
                             request_id |-> run[r].request_id,
                             nearby_count |-> 0, far_count |-> 0, notified_count |-> 0]
           /\ \E q \in Range(requests) : q.id = run[r].resp.request_id

\* C9 witness: the lookup failed although the store held a compatible donor
C9_Witness ==
    \E r \in Runs :
        /\ Completed(r) /\ run[r].findFailed
        /\ \E i \in 1..run[r].storeAtFind :
              donors[i].blood_group
                 \in Range(compatible_groups(run[r].data.required_blood_group))

\* C10 (as claimed): a submission whose required blood group is none of the 8 blood
\* types is not answered with the success response.
C10_UnknownBloodTypeRejected ==
    \A r \in Runs :
        (Returned(r) /\ run[r].data.complete
                     /\ run[r].data.required_blood_group \notin BloodTypes)
        => ~run[r].resp.success

\* the stored donors that register_donor call t created
RowsBy(t) ==
    {i \in 1..Len(donors) : reg[t].resp.success /\ reg[t].resp.donor_id = donors[i].id}

\* a donor stored when call t executed its INSERT had the email or the phone of t
RepeatsContact(t) ==
    \E i \in 1..reg[t].storeAtInsert :
        donors[i].email = reg[t].row.email \/ donors[i].phone = reg[t].row.phone

\* C11: a register_donor call whose INSERT ran with the email or the phone of a
\* donor stored already answers the duplicate-contact error (400, 'Email or phone
\* already registered') and adds no row: every stored row is the row of one
\* successful call, and no two stored rows share an email or share a phone.
C11_DuplicateContactRefused ==
    /\ \A t \in RegThreads :
          reg[t].pc = "done" /\ reg[t].executed /\ RepeatsContact(t)
          => /\ reg[t].resp = RegFailure(400, "Email or phone already registered")
             /\ RowsBy(t) = {}
    /\ \A i \in 1..Len(donors) :
          \E t \in RegThreads : RowsBy(t) = {i} /\ donors[i] = reg[t].row
    /\ \A i, j \in 1..Len(donors) :
          i # j => donors[i].email # donors[j].email /\ donors[i].phone # donors[j].phone

\* two donors are stored and a third call, whose email is new and whose phone is
\* the phone of one of them, has been refused as a duplicate
C11_Witness ==
    /\ Len(donors) = 2
    /\ \E t \in RegThreads :
          /\ reg[t].pc = "done" /\ reg[t].executed
          /\ reg[t].resp.status = 400
          /\ \A i \in 1..Len(donors) : donors[i].email # reg[t].row.email
          /\ \E i \in 1..Len(donors) : donors[i].phone = reg[t].row.phone
          /\ \E u \in RegThreads \ {t} : reg[u].resp.success

\* the ABO/Rh reference: the A and B antigens of a type, and the Rh-positive types
Antigens(t) ==
    CASE t \in {"A+", "A-"}   -> {"A"}
      [] t \in {"B+", "B-"}   -> {"B"}
      [] t \in {"AB+", "AB-"} -> {"A", "B"}
      [] t \in {"O+", "O-"}   -> {}

RhPositive == {"A+", "B+", "AB+", "O+"}

ReferenceDonors(t) ==
    {d \in BloodTypes :
        Antigens(d) \subseteq Antigens(t) /\ (d \notin RhPositive \/ t \in RhPositive)}

\* C12: for each of the 8 blood types T the table lists, without repetition,
\* exactly the donor types of the ABO/Rh reference (antigens of D within those
\* of T, and D Rh-negative or T Rh-positive); the list is not empty and holds T
\* and O-, it is {O-} for O- and all 8 types for AB+, and the relation is not
\* symmetric.
C12_TableIsAboRhReference ==
    call.fn = "compatible_groups" /\ call.args[1] \in BloodTypes
    => LET t == call.args[1]
           listed == Range(call.result)
       IN  /\ listed = ReferenceDonors(t)
           /\ Cardinality(listed) = Len(call.result)
           /\ listed # {} /\ t \in listed /\ "O-" \in listed
           /\ t = "O-" => listed = {"O-"}
           /\ t = "AB+" => listed = BloodTypes
           /\ \E a, b \in BloodTypes :
                 /\ a \in Range(compatible_groups(b))
                 /\ b \notin Range(compatible_groups(a))

\* the table was read for AB-, a type whose Rh factor cuts its list to 4 types
C12_Witness ==
    /\ call.fn = "compatible_groups"
    /\ call.args = <<"AB-">>
    /\ Len(call.result) = 4
    /\ "AB+" \notin Range(call.result)

\* the reference normal form of a location string: trimmed, then case-folded
\* (over the letters of the model, folding sends an upper-case letter to its
\* lower-case letter and leaves every other character alone)
UpperLower == {<<"M", "m">>, <<"U", "u">>, <<"C", "c">>, <<"D", "d">>}

Folded(c) ==
    IF \E p \in UpperLower : p[1] = c
    THEN (CHOOSE p \in UpperLower : p[1] = c)[2]
    ELSE c

Trimmed(s) ==
    LET inked == {i \in 1..Len(s) : s[i] # " "}
    IN  IF inked = {} THEN <<>>
        ELSE SubSeq(s, CHOOSE i \in inked : \A j \in inked : i <= j,
                       CHOOSE i \in inked : \A j \in inked : j <= i)

Normalized(s) == [i \in 1..Len(Trimmed(s)) |-> Folded(Trimmed(s)[i])]

\* a occurs in b as a run of consecutive characters
IsSubstring(a, b) ==
    \E i \in 1..(Len(b) + 1) : \E j \in (i - 1)..Len(b) : SubSeq(b, i, j) = a

\* C13: calculate_location_distance(a, b) = calculate_location_distance(b, a) for
\* all location strings a, b; the result is 0 (SAME) iff the trimmed, case-folded
\* strings are equal, 1 (NEARBY) iff they differ and one is a substring of the
\* other, 2 (DISTANT) otherwise.
C13_DistanceSymmetric ==
    call.fn = "calculate_location_distance"
    => LET a == call.args[1]
           b == call.args[2]
           same == Normalized(a) = Normalized(b)
           within == \/ IsSubstring(Normalized(a), Normalized(b))
                     \/ IsSubstring(Normalized(b), Normalized(a))
       IN  /\ call.result = calculate_location_distance(b, a)
           /\ call.result \in {0, 1, 2}
           /\ call.result = 0 <=> same
           /\ call.result = 1 <=> ~same /\ within
           /\ call.result = 2 <=> ~same /\ ~within

\* the function was applied to a longer string and a padded, differently cased
\* part of it, in the order that needs the second substring test
C13_Witness ==
    /\ call.fn = "calculate_location_distance"
    /\ call.args = << <<"m", "u", "M">>, <<" ", "M">> >>
    /\ call.result = 1

\* the stored donors a lookup for blood type g has to return
CompatibleRows(store, g) ==
    {store[i] : i \in {k \in 1..Len(store) :
                          store[k].blood_group \in Range(compatible_groups(g))}}

\* `list` keeps the order of the store (rows are stored in the order of their ids)
StoreOrder(list) == \A i, j \in 1..Len(list) : i < j => list[i].id < list[j].id

\* C14: for every store and every (required blood type, hospital location), a
\* lookup that reads the store returns two disjoint lists whose union is exactly
\* the stored donors of a compatible blood type, each list in the store's order
\* and without repetition; a donor is in the near list iff its location is SAME
\* or NEARBY to the hospital's, in the far list otherwise; the far list holds
\* every such donor, however many (no cap of 5 inside the lookup).
C14_FindPartitionsCompatibleDonors ==
    call.fn = "find_compatible_donors" /\ call.args[4]
    => LET store == call.args[1]
           g == call.args[2]
           h == call.args[3]
           near == call.result[1]
           far == call.result[2]
           wanted == CompatibleRows(store, g)
       IN  /\ Range(near) \cap Range(far) = {}
           /\ Range(near) \cup Range(far) = wanted
           /\ StoreOrder(near) /\ StoreOrder(far)
           /\ \A d \in wanted :
                 d \in Range(near) <=> calculate_location_distance(d.location, h) \in {0, 1}
           /\ Len(near) + Len(far) = Cardinality(wanted)
           /\ Len(far) = Cardinality({d \in wanted :
                                        calculate_location_distance(d.location, h) = 2})

\* a lookup on a store of more than 5 compatible donors, all of them distant from
\* the hospital, returned every one of them in the far list
C14_Witness ==
    /\ call.fn = "find_compatible_donors" /\ call.args[4]
    /\ Len(call.result[2]) > FAR_LIMIT
    /\ call.result[1] = <<>>

\* the state of the request a run works on, read off the position of the run:
\* RECEIVED once the request row is written, MATCHED once the lookup returned,
\* NOTIFYING from the first donor attempted, COMPLETED with the success response
Stage(l) ==
    CASE l.pc = "idle" -> "NEW"
      [] l.pc \in {"inserted", "persisted"} -> "RECEIVED"
      [] l.pc = "done" -> IF l.resp.success THEN "COMPLETED" ELSE "FAILED"
      [] OTHER -> IF l.attempted = <<>> THEN "MATCHED" ELSE "NOTIFYING"

Rank(stage) ==
    CASE stage = "NEW" -> 0
      [] stage = "RECEIVED" -> 1
      [] stage = "MATCHED" -> 2
      [] stage = "NOTIFYING" -> 3
      [] stage = "COMPLETED" -> 4
      [] stage = "FAILED" -> 9

\* a step leaves the stage of run r alone, moves it to the next stage, or fails
\* the run; a run with nobody to attempt passes NOTIFYING without a step (both
\* loops run zero times) and goes from MATCHED to COMPLETED
StageStep(r) ==
    LET a == Stage(run[r])
        b == Stage(run'[r])
    IN  \/ a = b
        \/ Rank(a) < 4 /\ Rank(b) = Rank(a) + 1
        \/ Rank(a) < 4 /\ b = "FAILED"
        \/ a = "MATCHED" /\ b = "COMPLETED" /\ Order(r) = <<>>

\* C15: every started submission moves through RECEIVED, MATCHED, NOTIFYING,
\* COMPLETED in that order, never back and never past a stage it has work in; a
\* donor is attempted only when the request row is committed; a started run that
\* returns without success returns a store error (500, or 503 for a lock
\* timeout); and every started run eventually returns.
C15_PipelineOrderAndTermination ==
    /\ [][\A r \in Runs : StageStep(r)]_vars
    /\ [](\A r \in Runs :
            /\ run[r].attempted # <<>>
               => \E i \in 1..Len(requests) : requests[i].id = run[r].request_id
            /\ Returned(r) /\ run[r].data.complete /\ ~run[r].resp.success
               => run[r].resp.status \in {500, 503})
    /\ \A r \in Runs : (run[r].pc # "idle") ~> Returned(r)

\* one run went through every stage, attempting two donors, and completed; the
\* other started and hard-failed on a store error
C15_Witness ==
    \E r, q \in Runs :
        /\ Completed(r) /\ Len(run[r].attempted) = 2
        /\ Returned(q) /\ run[q].data.complete /\ ~run[q].resp.success


====
